---------------------------- MODULE Spec2Model ----------------------------
(***************************************************************************)
(* Model of server/services/store/sqlstore/schema_table_migration.go of    *)
(* focalboard: the one-time upgrade of the schema_migrations bookkeeping   *)
(* table from the legacy shape (version, dirty) to the per-migration shape *)
(* (Version, Name).                                                        *)
(*                                                                         *)
(* The database is a map from table names (relative to s.tablePrefix) to   *)
(* tables.  Every database statement of the source is one action; a        *)
(* statement either takes effect or fails and leaves the database as it    *)
(* was.  A statement can fail for a reason outside the program (cause      *)
(* "conn") wherever the source checks its error.                           *)
(***************************************************************************)
EXTENDS Integers, Sequences, FiniteSets, TLC

(***************************************************************************)
(* Bounds of the model.                                                    *)
(***************************************************************************)
\* highest migration version in a catalog or in the legacy row
MaxVersion == 2
\* longest listing of the embedded migrations directory
MaxAssets == 2
\* longest input of filterMigrations in the pure-function specification
MaxFilterLen == 4

(***************************************************************************)
(* Names.                                                                  *)
(***************************************************************************)
Procs == {"p1", "p2"}

SqliteDBType == "sqlite3"
MysqlDBType == "mysql"
PostgresDBType == "postgres"
GenericDBType == "generic"
DBTypes == {GenericDBType, MysqlDBType, PostgresDBType, SqliteDBType}

Up == "up"
Down == "down"
\* the name in a migration file name; the up and the down file of a version
\* share it
NameOf(v) == "migration" \o ToString(v)

\* table names, relative to s.tablePrefix
Canonical == "schema_migrations"
tempSchemaMigrationTableName == "temp_schema_migration"
OldTemp == "schema_migrations_old_temp"
TableNames == {Canonical, tempSchemaMigrationTableName, OldTemp}

\* the schema the connection works in, and s.schemaName (MySQL)
CurrentSchema == "public"
schemaName == CurrentSchema
ForeignSchema(i) == "other" \o ToString(i)

NoTable == [cols |-> <<>>, rows |-> {}, exists |-> FALSE]
LegacyCols == <<"version", "dirty">>
NewCols == <<"Version", "Name">>
LegacyTable(v, d) ==
    [cols |-> LegacyCols, rows |-> {[version |-> v, dirty |-> d]}, exists |-> TRUE]
NewTable(rows) == [cols |-> NewCols, rows |-> rows, exists |-> TRUE]

Range(s) == {s[i] : i \in 1..Len(s)}
SeqsUpTo(S, n) == UNION {[1..k -> S] : k \in 0..n}

\* a table with a dirty column, a table without one
IsLegacy(t) == t.exists /\ "dirty" \in Range(t.cols)
IsNewShape(t) == t.exists /\ "dirty" \notin Range(t.cols)

Migration(v, n, d) == [Version |-> v, Name |-> n, Direction |-> d]
Descriptors == {Migration(v, NameOf(v), d) : v \in 1..MaxVersion, d \in {Up, Down}}

(***************************************************************************)
(* Errors and the record of a statement.                                   *)
(***************************************************************************)
NoErr == [site |-> "", cause |-> ""]
Err(site, cause) == [site |-> site, cause |-> cause]
Stmt(op, tbl, to, e) == [op |-> op, tbl |-> tbl, to |-> to, e |-> e]

(***************************************************************************)
(* filterMigrations: the loop over the catalog, appending what it keeps.   *)
(***************************************************************************)
RECURSIVE filterLoop(_, _, _, _)
filterLoop(migrations, legacySchemaVersion, i, filteredMigrations) ==
    IF i > Len(migrations) THEN filteredMigrations
    ELSE IF migrations[i].Direction # Up
         THEN filterLoop(migrations, legacySchemaVersion, i + 1, filteredMigrations)
    ELSE IF migrations[i].Version > legacySchemaVersion
         THEN filterLoop(migrations, legacySchemaVersion, i + 1, filteredMigrations)
    ELSE filterLoop(migrations, legacySchemaVersion, i + 1,
                    Append(filteredMigrations, migrations[i]))

\* skips the entries at the legacy version too (>= for >)
filterMigrationsSkipsEqual(migrations, legacySchemaVersion) ==
    filterLoop(migrations, legacySchemaVersion - 1, 1, <<>>)

filterMigrations(migrations, legacySchemaVersion) ==
    filterLoop(migrations, legacySchemaVersion, 1, <<>>)

(***************************************************************************)
(* getEmbeddedMigrations: the Up entries of the asset listing, in order.   *)
(***************************************************************************)
RECURSIVE embeddedLoop(_, _, _)
embeddedLoop(assetsList, i, migrations) ==
    IF i > Len(assetsList) THEN migrations
    ELSE IF assetsList[i].Direction # Up
         THEN embeddedLoop(assetsList, i + 1, migrations)
    ELSE embeddedLoop(assetsList, i + 1, Append(migrations, assetsList[i]))

getEmbeddedMigrationsList(assetsList) == embeddedLoop(assetsList, 1, <<>>)

(***************************************************************************)
(* The statements the source sends, by what the database does with them.   *)
(***************************************************************************)

\* information_schema.COLUMNS: one entry per column of every table of every
\* schema.  `foreign` other schemas hold a legacy table of the same name.
InformationSchemaColumns(tbls, foreign) ==
    UNION {{[TABLE_SCHEMA |-> CurrentSchema, TABLE_NAME |-> t,
             COLUMN_NAME |-> tbls[t].cols[i]] : i \in 1..Len(tbls[t].cols)} :
           t \in {u \in TableNames : tbls[u].exists}}
    \cup
    {[TABLE_SCHEMA |-> ForeignSchema(k), TABLE_NAME |-> Canonical, COLUMN_NAME |-> LegacyCols[i]] :
        k \in 1..foreign, i \in 1..Len(LegacyCols)}

\* The schema filter added per dialect.  squirrel's sq.Eq binds its value as a
\* query argument: for Postgres the column is compared with the string
\* "current_schema()", not with the result of the function.
SchemaFilter(db, c) ==
    CASE db = MysqlDBType -> c.TABLE_SCHEMA = schemaName
      [] db = PostgresDBType -> c.TABLE_SCHEMA = "current_schema()"
      [] OTHER -> TRUE

\* select count(*) from information_schema.COLUMNS where TABLE_NAME = ... and
\* COLUMN_NAME = 'dirty' [and TABLE_SCHEMA = ...]
CountDirtyColumns(db, tbls, foreign) ==
    Cardinality({c \in InformationSchemaColumns(tbls, foreign) :
                    /\ c.TABLE_NAME = Canonical
                    /\ c.COLUMN_NAME = "dirty"
                    /\ SchemaFilter(db, c)})

\* at least one column, for exactly one
NeededFromAtLeastOne(count) == count >= 1

\* return count == 1, nil
NeededFromCount(count) == count = 1

\* PRAGMA table_info("<prefix>schema_migrations"): one row of six columns per
\* column of the table (cid, name, type, notnull, dflt_value, pk); no row and
\* no error when the table does not exist.
TableInfo(tbls) ==
    IF tbls[Canonical].exists
    THEN [i \in 1..Len(tbls[Canonical].cols) |->
            <<ToString(i - 1), tbls[Canonical].cols[i], "", "1", "", ToString(i)>>]
    ELSE <<>>

\* the loop over data: a row whose second value is "dirty"
NameColumnFound(data) ==
    \E i \in 1..Len(data) : Len(data[i]) >= 2 /\ data[i][2] = "dirty"

\* the version column of a row of either shape (SQL names are case-insensitive)
VersionOf(row) == IF "version" \in DOMAIN row THEN row.version ELSE row.Version

\* CREATE TABLE IF NOT EXISTS <temp> (Version bigint NOT NULL, Name varchar(64)
\* NOT NULL, PRIMARY KEY (Version))
CreateCause(tbls) == ""

\* creates the table anew, dropping the rows of an existing one
CreateAnew(tbls) ==
    [tbls EXCEPT ![tempSchemaMigrationTableName] = NewTable({})]

CreateIfNotExists(tbls) ==
    IF tbls[tempSchemaMigrationTableName].exists THEN tbls
    ELSE [tbls EXCEPT ![tempSchemaMigrationTableName] = NewTable({})]

\* the (Version, Name) values of the insert, one per migration
MigrationRow(m) == [Version |-> m.Version, Name |-> m.Name]
InsertValues(migs) == [i \in 1..Len(migs) |-> MigrationRow(migs[i])]

\* why the multi-row insert fails, "" when it does not
InsertCause(tbls, values) ==
    IF Len(values) = 0 THEN "no_values"
    ELSE IF ~tbls[tempSchemaMigrationTableName].exists THEN "no_such_table"
    ELSE IF tbls[tempSchemaMigrationTableName].cols # NewCols THEN "no_such_column"
    ELSE IF \/ \E i, j \in 1..Len(values) : i # j /\ values[i].Version = values[j].Version
            \/ \E i \in 1..Len(values) :
                 \E r \in tbls[tempSchemaMigrationTableName].rows :
                    r.Version = values[i].Version
         THEN "duplicate_key"
    ELSE ""

\* inserts into the canonical table, not into the temp table
InsertRowsIntoCanonical(tbls, values) ==
    [tbls EXCEPT ![Canonical].rows = @ \cup Range(values)]

InsertRows(tbls, values) ==
    [tbls EXCEPT ![tempSchemaMigrationTableName].rows = @ \cup Range(values)]

\* ALTER TABLE a RENAME TO b / RENAME TABLE a TO b
RenameCause(tbls, from, to) ==
    IF ~tbls[from].exists THEN "no_such_table"
    ELSE IF tbls[to].exists THEN "table_exists"
    ELSE ""

RenameTable(tbls, from, to) ==
    [tbls EXCEPT ![to] = tbls[from], ![from] = NoTable]

RenameKeyword(db) == IF db = MysqlDBType THEN "RENAME TABLE" ELSE "ALTER TABLE RENAME TO"

\* DROP TABLE IF EXISTS <prefix>schema_migrations_old_temp: a missing table
\* is no error
DropCauseStrict(tbls) == IF tbls[OldTemp].exists THEN "" ELSE "no_such_table"
DropCause(tbls) == ""
DropIfExists(tbls) == [tbls EXCEPT ![OldTemp] = NoTable]

(***************************************************************************)
(* State.                                                                  *)
(***************************************************************************)
VARIABLES
    dbType,               \* s.dbType
    assets,               \* Assets: the listing of the embedded migrations directory
    foreign,              \* other schemas holding a legacy table of the same name
    tables,               \* the tables of the current schema
    pc,                   \* where each process stands
    op,                   \* the entry point a process runs or ran last
    err,                  \* the error the entry point returned
    count,                \* isSchemaMigrationNeeded: count (-1 before the scan)
    migrationNeeded,      \* EnsureSchemaMigrationFormat: migrationNeeded
    legacySchemaVersion,  \* EnsureSchemaMigrationFormat: legacySchemaVersion
    migrations,           \* EnsureSchemaMigrationFormat: migrations
    filteredMigrations,   \* EnsureSchemaMigrationFormat: filteredMigrations
    rowsOpen,             \* isSchemaMigrationNeededSQLite: rows not yet closed
    trace,                \* the steps of the current call, each with its outcome
    logged,               \* the s.logger.Error calls of the current call
    startTables,          \* the tables as the current call found them
    data,                 \* isSchemaMigrationNeededSQLite: data, the rows read
    retry,                \* the call follows a call that failed on a legacy table
    original,             \* the canonical table before the first call
    cleanupInvoked,       \* deleteOldSchemaMigrationTable has been called
    everOverlapped,       \* a call has started while another was under way
    faults,               \* statements can fail for reasons outside the program
    fMigrations,          \* filterMigrations called alone: its first argument
    fLegacy,              \*   its second argument
    fResult,              \*   its result
    fDone                 \*   whether it has been called

dbVars == <<dbType, assets, foreign, tables>>
procVars == <<pc, op, err, count, migrationNeeded, legacySchemaVersion, migrations,
              filteredMigrations, rowsOpen, trace, logged, startTables, data, retry>>
histVars == <<original, cleanupInvoked, everOverlapped, faults>>
filterVars == <<fMigrations, fLegacy, fResult, fDone>>
vars == <<dbVars, procVars, histVars, filterVars>>

\* the tables a run can find: the legacy table with its one row, a table
\* already in the new shape, or none yet
InitialTables ==
    {[t \in TableNames |-> IF t = Canonical THEN c ELSE NoTable] :
        c \in {LegacyTable(v, d) : v \in 1..MaxVersion, d \in BOOLEAN}
              \cup {NewTable({[Version |-> 1, Name |-> NameOf(1)]})}
              \cup {NoTable}}

InitProcs ==
    /\ pc = [p \in Procs |-> "idle"]
    /\ op = [p \in Procs |-> ""]
    /\ err = [p \in Procs |-> NoErr]
    /\ count = [p \in Procs |-> -1]
    /\ migrationNeeded = [p \in Procs |-> FALSE]
    /\ legacySchemaVersion = [p \in Procs |-> 0]
    /\ migrations = [p \in Procs |-> <<>>]
    /\ filteredMigrations = [p \in Procs |-> <<>>]
    /\ rowsOpen = [p \in Procs |-> FALSE]
    /\ trace = [p \in Procs |-> <<>>]
    /\ logged = [p \in Procs |-> <<>>]
    /\ data = [p \in Procs |-> <<>>]
    /\ retry = [p \in Procs |-> FALSE]

Init ==
    /\ dbType \in DBTypes
    /\ assets \in SeqsUpTo(Descriptors, MaxAssets)
    /\ foreign \in {0, 1}
    /\ tables \in InitialTables
    /\ InitProcs
    /\ startTables = [p \in Procs |-> tables]
    /\ original = tables[Canonical]
    /\ cleanupInvoked = FALSE
    /\ everOverlapped = FALSE
    /\ faults = TRUE
    /\ fMigrations = <<>>
    /\ fLegacy = 0
    /\ fResult = <<>>
    /\ fDone = TRUE

(***************************************************************************)
(* Steps shared by the actions.                                            *)
(***************************************************************************)
Return(p, e) ==
    /\ pc' = [pc EXCEPT ![p] = "done"]
    /\ err' = [err EXCEPT ![p] = e]

Goto(p, label) ==
    /\ pc' = [pc EXCEPT ![p] = label]
    /\ UNCHANGED err

Step(p, entry) == trace' = [trace EXCEPT ![p] = Append(@, entry)]

LogError(p, msgs) == logged' = [logged EXCEPT ![p] = @ \o msgs]

\* whether the statement at hand fails for an outside reason
OutsideFailures == IF faults THEN BOOLEAN ELSE {FALSE}

\* a call of p starts while a call of another process is under way
Overlaps(p) == \E q \in Procs \ {p} : pc[q] \notin {"idle", "done"}

\* a statement fails for an outside reason, or for its own (cause "" if none)
Outcome(ext, cause) == IF ext THEN "conn" ELSE cause

\* s.CloseRows(rows): closes the rows
CloseRows(open) == FALSE

\* closes the rows when the loop ends, not on the early return of a failed Scan
closeRowsAtEndOfLoop(p, bad) ==
    rowsOpen' = [rowsOpen EXCEPT ![p] = IF bad = "scan" THEN @ ELSE CloseRows(@)]

\* isSchemaMigrationNeededSQLite: `defer s.CloseRows(rows)`, run at every return
\* that follows it
deferredCloseRows(p, bad) ==
    rowsOpen' = [rowsOpen EXCEPT ![p] = CloseRows(@)]

\* EnsureSchemaMigrationFormat: `if err != nil { return err }` after each call
detectFailed(p, e) == Return(p, e)
versionFailed(p, e) == Return(p, e)
listFailed(p, e) == Return(p, e)
createFailed(p, e) == Return(p, e)
populateFailedGoesOn(p, e) == Goto(p, "renameOld")
populateFailed(p, e) == Return(p, e)

\* useNewSchemaTable: `if _, err := s.db.Exec(query); err != nil { return err }`
renameOldFailedGoesOn(p, e) == Goto(p, "renameTemp")
renameOldFailed(p, e) == Return(p, e)
renameTempFailed(p, e) == Return(p, e)

(***************************************************************************)
(* EnsureSchemaMigrationFormat                                             *)
(***************************************************************************)
StartEnsure(p) ==
    /\ pc[p] \in {"idle", "done"}
    /\ pc' = [pc EXCEPT ![p] = "detect"]
    /\ op' = [op EXCEPT ![p] = "ensure"]
    /\ err' = [err EXCEPT ![p] = NoErr]
    /\ count' = [count EXCEPT ![p] = -1]
    /\ migrationNeeded' = [migrationNeeded EXCEPT ![p] = FALSE]
    /\ legacySchemaVersion' = [legacySchemaVersion EXCEPT ![p] = 0]
    /\ migrations' = [migrations EXCEPT ![p] = <<>>]
    /\ filteredMigrations' = [filteredMigrations EXCEPT ![p] = <<>>]
    /\ rowsOpen' = [rowsOpen EXCEPT ![p] = FALSE]
    /\ trace' = [trace EXCEPT ![p] = <<>>]
    /\ logged' = [logged EXCEPT ![p] = <<>>]
    /\ startTables' = [startTables EXCEPT ![p] = tables]
    /\ data' = [data EXCEPT ![p] = <<>>]
    /\ retry' = [retry EXCEPT ![p] = /\ op[p] = "ensure"
                                     /\ pc[p] = "done"
                                     /\ err[p] # NoErr
                                     /\ IsLegacy(tables[Canonical])]
    /\ everOverlapped' = (everOverlapped \/ Overlaps(p))
    /\ UNCHANGED <<dbVars, original, cleanupInvoked, faults, filterVars>>

\* isSchemaMigrationNeeded on the dialects with an information schema
isSchemaMigrationNeeded(p) ==
    /\ pc[p] = "detect"
    /\ dbType # SqliteDBType
    /\ \E ext \in OutsideFailures :
        IF ext
        THEN /\ Step(p, Stmt("select_count", Canonical, "", Err("detect", "conn")))
             /\ LogError(p, <<"detect">>)
             /\ detectFailed(p, Err("detect", "conn"))
             /\ UNCHANGED <<count, migrationNeeded>>
        ELSE LET c == CountDirtyColumns(dbType, tables, foreign) IN
             /\ Step(p, Stmt("select_count", Canonical, "", NoErr))
             /\ count' = [count EXCEPT ![p] = c]
             /\ migrationNeeded' = [migrationNeeded EXCEPT ![p] = NeededFromCount(c)]
             /\ IF NeededFromCount(c) THEN Goto(p, "version") ELSE Return(p, NoErr)
             /\ UNCHANGED logged
    /\ UNCHANGED <<dbVars, filterVars, op, legacySchemaVersion, migrations,
                   filteredMigrations, rowsOpen, startTables>>
    /\ UNCHANGED <<data, retry, histVars>>

\* isSchemaMigrationNeededSQLite: s.db.Query of the PRAGMA
isSchemaMigrationNeededSQLiteQuery(p) ==
    /\ pc[p] = "detect"
    /\ dbType = SqliteDBType
    /\ \E ext \in OutsideFailures :
        IF ext
        THEN /\ Step(p, Stmt("pragma_table_info", Canonical, "", Err("detect", "conn")))
             /\ LogError(p, <<"detect_sqlite_query">>)
             /\ detectFailed(p, Err("detect", "conn"))
             /\ UNCHANGED rowsOpen
        ELSE /\ Step(p, Stmt("pragma_table_info", Canonical, "", NoErr))
             /\ rowsOpen' = [rowsOpen EXCEPT ![p] = TRUE]
             /\ Goto(p, "scan")
             /\ UNCHANGED logged
    /\ UNCHANGED <<dbVars, filterVars, op, count, migrationNeeded, legacySchemaVersion,
                   migrations, filteredMigrations, startTables>>
    /\ UNCHANGED <<data, retry, histVars>>

\* isSchemaMigrationNeededSQLite: the rows.Next / rows.Scan loop, the search
\* for "dirty" and the deferred CloseRows.  rows.Next returns false at the end
\* of the rows and also when fetching fails; rows.Err is not consulted, so the
\* loop then ends with the rows read so far.
isSchemaMigrationNeededSQLiteScan(p) ==
    /\ pc[p] = "scan"
    /\ LET info == TableInfo(tables) IN
       \E n \in 0..Len(info), bad \in {""} \cup (IF faults THEN {"scan", "next"} ELSE {}) :
        /\ bad = "" => n = Len(info)
        /\ bad # "" => n < Len(info)
        /\ IF bad = "scan"
           THEN /\ trace' = [trace EXCEPT ![p][Len(trace[p])].e = Err("detect", "scan")]
                /\ LogError(p, <<"detect_sqlite_scan">>)
                /\ detectFailed(p, Err("detect", "scan"))
                /\ UNCHANGED migrationNeeded
           ELSE LET nameColumnFound == NameColumnFound(SubSeq(info, 1, n)) IN
                /\ trace' = [trace EXCEPT ![p][Len(trace[p])].e =
                                IF bad = "next" THEN Err("detect", "next") ELSE NoErr]
                /\ migrationNeeded' = [migrationNeeded EXCEPT ![p] = nameColumnFound]
                /\ IF nameColumnFound THEN Goto(p, "version") ELSE Return(p, NoErr)
                /\ UNCHANGED logged
        /\ data' = [data EXCEPT ![p] = SubSeq(info, 1, n)]
        /\ deferredCloseRows(p, bad)
    /\ UNCHANGED <<dbVars, filterVars, op, count, legacySchemaVersion, migrations,
                   filteredMigrations, startTables>>
    /\ UNCHANGED <<retry, histVars>>

\* getLegacySchemaVersion: select version from <prefix>schema_migrations,
\* the first row scanned into a uint32
getLegacySchemaVersion(p) ==
    /\ pc[p] = "version"
    /\ \E ext \in OutsideFailures :
        LET cause == Outcome(ext, IF ~tables[Canonical].exists THEN "no_such_table"
                                  ELSE IF tables[Canonical].rows = {} THEN "no_rows"
                                  ELSE "")
        IN IF cause # ""
           THEN /\ Step(p, Stmt("select_version", Canonical, "", Err("version", cause)))
                /\ LogError(p, <<"version">>)
                /\ versionFailed(p, Err("version", cause))
                /\ UNCHANGED legacySchemaVersion
           ELSE \E r \in tables[Canonical].rows :
                /\ Step(p, Stmt("select_version", Canonical, "", NoErr))
                /\ legacySchemaVersion' = [legacySchemaVersion EXCEPT ![p] = VersionOf(r)]
                /\ Goto(p, "list")
                /\ UNCHANGED logged
    /\ UNCHANGED <<dbVars, filterVars, op, count, migrationNeeded, migrations,
                   filteredMigrations, rowsOpen, startTables>>
    /\ UNCHANGED <<data, retry, histVars>>

\* getEmbeddedMigrations, then filterMigrations on its result (lines 34-38)
getEmbeddedMigrations(p) ==
    /\ pc[p] = "list"
    /\ \/ \E cause \in {"read_dir", "parse"} :
            /\ faults
            /\ Step(p, Stmt("read_dir", "migrations", "", Err("list", cause)))
            /\ listFailed(p, Err("list", cause))
            /\ UNCHANGED <<migrations, filteredMigrations>>
       \/ LET ms == getEmbeddedMigrationsList(assets) IN
            /\ Step(p, Stmt("read_dir", "migrations", "", NoErr))
            /\ migrations' = [migrations EXCEPT ![p] = ms]
            /\ filteredMigrations' = [filteredMigrations EXCEPT ![p] =
                                         filterMigrations(ms, legacySchemaVersion[p])]
            /\ Goto(p, "create")
    /\ UNCHANGED <<dbVars, filterVars, op, count, migrationNeeded, legacySchemaVersion,
                   rowsOpen, logged, startTables>>
    /\ UNCHANGED <<data, retry, histVars>>

createTempSchemaTable(p) ==
    /\ pc[p] = "create"
    /\ \E ext \in OutsideFailures :
        LET cause == Outcome(ext, CreateCause(tables))
        IN IF cause # ""
        THEN /\ Step(p, Stmt("create_table", tempSchemaMigrationTableName, "",
                             Err("create", cause)))
             /\ LogError(p, <<"create", "create_message">>)
             /\ createFailed(p, Err("create", cause))
             /\ UNCHANGED tables
        ELSE /\ Step(p, Stmt("create_table", tempSchemaMigrationTableName, "", NoErr))
             /\ tables' = CreateIfNotExists(tables)
             /\ Goto(p, "populate")
             /\ UNCHANGED logged
    /\ UNCHANGED <<dbType, assets, foreign, filterVars, op, count, migrationNeeded,
                   legacySchemaVersion, migrations, filteredMigrations, rowsOpen,
                   startTables>>
    /\ UNCHANGED <<data, retry, histVars>>

populateTempSchemaTable(p) ==
    /\ pc[p] = "populate"
    /\ \E ext \in OutsideFailures :
        LET values == InsertValues(filteredMigrations[p])
            cause == Outcome(ext, InsertCause(tables, values))
        IN IF cause # ""
           THEN /\ Step(p, Stmt("insert", tempSchemaMigrationTableName, "",
                                Err("populate", cause)))
                /\ LogError(p, <<"populate">>)
                /\ populateFailed(p, Err("populate", cause))
                /\ UNCHANGED tables
           ELSE /\ Step(p, Stmt("insert", tempSchemaMigrationTableName, "", NoErr))
                /\ tables' = InsertRows(tables, values)
                /\ Goto(p, "renameOld")
                /\ UNCHANGED logged
    /\ UNCHANGED <<dbType, assets, foreign, filterVars, op, count, migrationNeeded,
                   legacySchemaVersion, migrations, filteredMigrations, rowsOpen,
                   startTables>>
    /\ UNCHANGED <<data, retry, histVars>>

\* useNewSchemaTable: the first rename, <canonical> to <canonical>_old_temp
useNewSchemaTableRenameOld(p) ==
    /\ pc[p] = "renameOld"
    /\ \E ext \in OutsideFailures :
        LET cause == Outcome(ext, RenameCause(tables, Canonical, OldTemp))
        IN IF cause # ""
           THEN /\ Step(p, Stmt(RenameKeyword(dbType), Canonical, OldTemp,
                                Err("renameOld", cause)))
                /\ LogError(p, <<"renameOld">>)
                /\ renameOldFailed(p, Err("renameOld", cause))
                /\ UNCHANGED tables
           ELSE /\ Step(p, Stmt(RenameKeyword(dbType), Canonical, OldTemp, NoErr))
                /\ tables' = RenameTable(tables, Canonical, OldTemp)
                /\ Goto(p, "renameTemp")
                /\ UNCHANGED logged
    /\ UNCHANGED <<dbType, assets, foreign, filterVars, op, count, migrationNeeded,
                   legacySchemaVersion, migrations, filteredMigrations, rowsOpen,
                   startTables>>
    /\ UNCHANGED <<data, retry, histVars>>

\* useNewSchemaTable: the second rename, <temp> to <canonical>
useNewSchemaTableRenameTemp(p) ==
    /\ pc[p] = "renameTemp"
    /\ \E ext \in OutsideFailures :
        LET cause == Outcome(ext, RenameCause(tables, tempSchemaMigrationTableName, Canonical))
        IN IF cause # ""
           THEN /\ Step(p, Stmt(RenameKeyword(dbType), tempSchemaMigrationTableName,
                                Canonical, Err("renameTemp", cause)))
                /\ LogError(p, <<"renameTemp">>)
                /\ renameTempFailed(p, Err("renameTemp", cause))
                /\ UNCHANGED tables
           ELSE /\ Step(p, Stmt(RenameKeyword(dbType), tempSchemaMigrationTableName,
                                Canonical, NoErr))
                /\ tables' = RenameTable(tables, tempSchemaMigrationTableName, Canonical)
                /\ Return(p, NoErr)
                /\ UNCHANGED logged
    /\ UNCHANGED <<dbType, assets, foreign, filterVars, op, count, migrationNeeded,
                   legacySchemaVersion, migrations, filteredMigrations, rowsOpen,
                   startTables>>
    /\ UNCHANGED <<data, retry, histVars>>

(***************************************************************************)
(* deleteOldSchemaMigrationTable                                           *)
(***************************************************************************)
deleteOldSchemaMigrationTable(p) ==
    /\ pc[p] \in {"idle", "done"}
    /\ op' = [op EXCEPT ![p] = "cleanup"]
    /\ count' = [count EXCEPT ![p] = -1]
    /\ migrationNeeded' = [migrationNeeded EXCEPT ![p] = FALSE]
    /\ legacySchemaVersion' = [legacySchemaVersion EXCEPT ![p] = 0]
    /\ migrations' = [migrations EXCEPT ![p] = <<>>]
    /\ filteredMigrations' = [filteredMigrations EXCEPT ![p] = <<>>]
    /\ startTables' = [startTables EXCEPT ![p] = tables]
    /\ \E ext \in OutsideFailures :
        LET cause == Outcome(ext, DropCause(tables))
        IN IF cause # ""
        THEN /\ trace' = [trace EXCEPT ![p] =
                            <<Stmt("drop_table", OldTemp, "", Err("drop", cause))>>]
             /\ logged' = [logged EXCEPT ![p] = <<"drop">>]
             /\ Return(p, Err("drop", cause))
             /\ UNCHANGED tables
        ELSE /\ trace' = [trace EXCEPT ![p] = <<Stmt("drop_table", OldTemp, "", NoErr)>>]
             /\ logged' = [logged EXCEPT ![p] = <<>>]
             /\ tables' = DropIfExists(tables)
             /\ Return(p, NoErr)
    /\ data' = [data EXCEPT ![p] = <<>>]
    /\ retry' = [retry EXCEPT ![p] = FALSE]
    /\ cleanupInvoked' = TRUE
    /\ everOverlapped' = (everOverlapped \/ Overlaps(p))
    /\ UNCHANGED <<dbType, assets, foreign, filterVars, rowsOpen, original, faults>>

(***************************************************************************)
(* One process at a time runs the entry points, one call after another.    *)
(***************************************************************************)
Next ==
    \E p \in {"p1"} :
        \/ StartEnsure(p)
        \/ isSchemaMigrationNeeded(p)
        \/ isSchemaMigrationNeededSQLiteQuery(p)
        \/ isSchemaMigrationNeededSQLiteScan(p)
        \/ getLegacySchemaVersion(p)
        \/ getEmbeddedMigrations(p)
        \/ createTempSchemaTable(p)
        \/ populateTempSchemaTable(p)
        \/ useNewSchemaTableRenameOld(p)
        \/ useNewSchemaTableRenameTemp(p)
        \/ deleteOldSchemaMigrationTable(p)

Spec == Init /\ [][Next]_vars

(***************************************************************************)
(* Two processes run the entry points on the same database with no lock    *)
(* between them, their statements interleaved in any order; no statement   *)
(* fails for an outside reason and no other schema has a table of the same *)
(* name.                                                                   *)
(***************************************************************************)
InitConcurrent ==
    /\ dbType \in DBTypes
    /\ assets \in SeqsUpTo(Descriptors, MaxAssets)
    /\ foreign = 0
    /\ tables \in InitialTables
    /\ InitProcs
    /\ startTables = [p \in Procs |-> tables]
    /\ original = tables[Canonical]
    /\ cleanupInvoked = FALSE
    /\ everOverlapped = FALSE
    /\ faults = FALSE
    /\ fMigrations = <<>>
    /\ fLegacy = 0
    /\ fResult = <<>>
    /\ fDone = TRUE

NextConcurrent ==
    \E p \in Procs :
        \/ StartEnsure(p)
        \/ isSchemaMigrationNeeded(p)
        \/ isSchemaMigrationNeededSQLiteQuery(p)
        \/ isSchemaMigrationNeededSQLiteScan(p)
        \/ getLegacySchemaVersion(p)
        \/ getEmbeddedMigrations(p)
        \/ createTempSchemaTable(p)
        \/ populateTempSchemaTable(p)
        \/ useNewSchemaTableRenameOld(p)
        \/ useNewSchemaTableRenameTemp(p)
        \/ deleteOldSchemaMigrationTable(p)

SpecConcurrent == InitConcurrent /\ [][NextConcurrent]_vars

(***************************************************************************)
(* filterMigrations called alone, on any listing (Up and Down entries, any *)
(* order, repeated versions) and any legacy version.                       *)
(***************************************************************************)
InitFilter ==
    /\ dbType = SqliteDBType
    /\ assets = <<>>
    /\ foreign = 0
    /\ tables = [t \in TableNames |-> NoTable]
    /\ InitProcs
    /\ startTables = [p \in Procs |-> tables]
    /\ original = tables[Canonical]
    /\ cleanupInvoked = FALSE
    /\ everOverlapped = FALSE
    /\ faults = TRUE
    /\ fMigrations \in SeqsUpTo({Migration(v, NameOf(v), d) :
                                  v \in 1..(MaxVersion + 1), d \in {Up, Down}},
                               MaxFilterLen)
    /\ fLegacy \in 0..(MaxVersion + 1)
    /\ fResult = <<>>
    /\ fDone = FALSE

CallFilterMigrations ==
    /\ ~fDone
    /\ fResult' = filterMigrations(fMigrations, fLegacy)
    /\ fDone' = TRUE
    /\ UNCHANGED <<fMigrations, fLegacy, dbVars, procVars, histVars>>

NextFilter == CallFilterMigrations

SpecFilter == InitFilter /\ [][NextFilter]_vars

(***************************************************************************)
(* What the claims speak of.                                               *)
(***************************************************************************)
\* the call of p found the canonical table in the legacy / in the new shape
LegacyStart(p) == IsLegacy(startTables[p][Canonical])
NewShapeStart(p) == IsNewShape(startTables[p][Canonical])

EnsureReturned(p) == op[p] = "ensure" /\ pc[p] = "done"
EnsureReturnedNil(p) == EnsureReturned(p) /\ err[p] = NoErr

\* the version in the legacy row the call found
LegacyVersionAtStart(p) ==
    (CHOOSE r \in startTables[p][Canonical].rows : TRUE).version

\* the (version, name) pairs of the Up entries of the catalog at or below v
CatalogRowsUpTo(v) ==
    {[Version |-> a.Version, Name |-> a.Name] :
        a \in {x \in Range(assets) : x.Direction = Up /\ x.Version <= v}}

IsRename(e, from, to) ==
    e.op \in {"RENAME TABLE", "ALTER TABLE RENAME TO"} /\ e.tbl = from /\ e.to = to
IsDetection(e) == e.op \in {"select_count", "pragma_table_info"}

\* nothing outside the program interferes with the detection of p's call: no
\* other schema holds a table of the same name, and no fetch of a row failed
QuietDetection(p) ==
    /\ foreign = 0
    /\ \A i \in 1..Len(trace[p]) : IsDetection(trace[p][i]) => trace[p][i].e = NoErr

(***************************************************************************)
(* C1: whenever EnsureSchemaMigrationFormat starts on a legacy-shaped      *)
(* canonical table and returns no error, the canonical table is in the new *)
(* shape and its rows are exactly the (version, name) pairs of the Up      *)
(* entries of the catalog whose version is at most the legacy version.     *)
(***************************************************************************)
C1_RowsAreFilteredCatalog ==
    \A p \in Procs :
        (EnsureReturnedNil(p) /\ LegacyStart(p) /\ QuietDetection(p)) =>
            /\ IsNewShape(tables[Canonical])
            /\ tables[Canonical].rows = CatalogRowsUpTo(LegacyVersionAtStart(p))

\* The same, for the calls whose detection answered that migration is needed.
C1_HoldsWhenDetected ==
    \A p \in Procs :
        (EnsureReturnedNil(p) /\ LegacyStart(p) /\ migrationNeeded[p]) =>
            /\ IsNewShape(tables[Canonical])
            /\ tables[Canonical].rows = CatalogRowsUpTo(LegacyVersionAtStart(p))

(***************************************************************************)
(* C2: a call that finds the canonical table already in the new shape      *)
(* issues only the detection query, writes nothing, leaves every table     *)
(* unchanged and returns no error (the detection query itself not failing).*)
(***************************************************************************)
C2_NoOpOnNewShape ==
    \A p \in Procs :
        (/\ op[p] = "ensure"
         /\ NewShapeStart(p)
         /\ \A i \in 1..Len(trace[p]) : trace[p][i].e.cause # "conn") =>
            /\ pc[p] \in {"detect", "scan", "done"}
            /\ \A i \in 1..Len(trace[p]) : IsDetection(trace[p][i])
            /\ tables = startTables[p]
            /\ err[p] = NoErr

(***************************************************************************)
(* C3: if populateTempSchemaTable fails, EnsureSchemaMigrationFormat       *)
(* returns that error, issues neither rename, and the canonical table is   *)
(* as the call found it: a legacy table keeps its shape and its one row.   *)
(***************************************************************************)
C3_PopulateFailureContained ==
    \A p \in Procs :
        \A i \in 1..Len(trace[p]) :
            (op[p] = "ensure" /\ trace[p][i].op = "insert" /\ trace[p][i].e # NoErr) =>
                /\ pc[p] = "done"
                /\ err[p] = trace[p][i].e
                /\ i = Len(trace[p])
                /\ \A j \in 1..Len(trace[p]) :
                      trace[p][j].op \notin {"RENAME TABLE", "ALTER TABLE RENAME TO"}
                /\ tables[Canonical] = startTables[p][Canonical]
                /\ LegacyStart(p) =>
                      /\ tables[Canonical].cols = LegacyCols
                      /\ Cardinality(tables[Canonical].rows) = 1

\* a duplicate version in the catalog made the insert fail on a legacy table
C3_Witness ==
    \E p \in Procs :
        /\ EnsureReturned(p)
        /\ LegacyStart(p)
        /\ err[p] = Err("populate", "duplicate_key")

(***************************************************************************)
(* C4: after a call on a legacy table that returns no error, the table     *)
(* <prefix>schema_migrations_old_temp exists and is the legacy table as    *)
(* the call found it, and the call has issued no drop.                     *)
(***************************************************************************)
C4_BackupAfterSuccess ==
    \A p \in Procs :
        (EnsureReturnedNil(p) /\ LegacyStart(p) /\ QuietDetection(p)) =>
            /\ tables[OldTemp] = startTables[p][Canonical]
            /\ \A i \in 1..Len(trace[p]) : trace[p][i].op # "drop_table"

\* The backup is there after the calls that detected the legacy table.
C4_HoldsWhenDetected ==
    \A p \in Procs :
        (EnsureReturnedNil(p) /\ LegacyStart(p) /\ migrationNeeded[p]) =>
            tables[OldTemp] = startTables[p][Canonical]

\* The backup table ceases to exist only in a step of
\* deleteOldSchemaMigrationTable.
C4_OnlyCleanupDrops ==
    [][(tables[OldTemp].exists /\ ~tables'[OldTemp].exists) =>
          \E p \in Procs : op'[p] = "cleanup" /\ pc[p] \in {"idle", "done"}]_vars

(***************************************************************************)
(* C5: on every dialect, detection that returns no error answers true when *)
(* the canonical table of the current schema has a column named dirty and  *)
(* false when it has none.                                                 *)
(***************************************************************************)
DetectionAnswered(p) ==
    /\ op[p] = "ensure"
    /\ pc[p] \notin {"idle", "detect", "scan"}
    /\ err[p].site # "detect"

C5_DetectionCorrect ==
    \A p \in Procs :
        (DetectionAnswered(p) /\ QuietDetection(p)) =>
            migrationNeeded[p] = IsLegacy(startTables[p][Canonical])

\* Detection is right on MySQL and SQLite, and on the generic dialect when no
\* other schema holds a table of the same name.
C5_HoldsElsewhere ==
    \A p \in Procs :
        (DetectionAnswered(p) /\ QuietDetection(p) /\ dbType # PostgresDBType) =>
            migrationNeeded[p] = IsLegacy(startTables[p][Canonical])

(***************************************************************************)
(* C6: in a call of EnsureSchemaMigrationFormat the first step that fails  *)
(* is the last step of the call, and the call returns that step's error.   *)
(***************************************************************************)
C6_FirstFailureReturned ==
    \A p \in Procs :
        \A i \in 1..Len(trace[p]) :
            (op[p] = "ensure" /\ trace[p][i].e # NoErr) =>
                /\ i = Len(trace[p])
                /\ pc[p] = "done"
                /\ err[p] = trace[p][i].e

\* Every failure but a failed fetch of the PRAGMA's rows is returned.
C6_HoldsForReturnedErrors ==
    \A p \in Procs :
        \A i \in 1..Len(trace[p]) :
            (op[p] = "ensure" /\ trace[p][i].e # NoErr /\ trace[p][i].e.cause # "next") =>
                /\ i = Len(trace[p])
                /\ pc[p] = "done"
                /\ err[p] = trace[p][i].e

(***************************************************************************)
(* C7: deleteOldSchemaMigrationTable fails only when its statement fails   *)
(* for an outside reason, never because the backup table is missing; when  *)
(* it returns no error the backup table is absent and the canonical and    *)
(* temp tables are as before; called with the backup table absent (as a    *)
(* second call in a row is) it changes nothing.                            *)
(***************************************************************************)
CleanupReturned(p) == op[p] = "cleanup" /\ pc[p] = "done"

C7_CleanupIdempotent ==
    \A p \in Procs :
        CleanupReturned(p) =>
            /\ err[p] # NoErr => (err[p] = Err("drop", "conn") /\ tables = startTables[p])
            /\ err[p] = NoErr =>
                  /\ ~tables[OldTemp].exists
                  /\ tables[Canonical] = startTables[p][Canonical]
                  /\ tables[tempSchemaMigrationTableName] =
                        startTables[p][tempSchemaMigrationTableName]
            /\ (err[p] = NoErr /\ ~startTables[p][OldTemp].exists) =>
                  tables = startTables[p]

\* a call that returned no error although there was no backup table, after
\* the swap and an earlier cleanup
C7_Witness ==
    \E p \in Procs :
        /\ CleanupReturned(p)
        /\ err[p] = NoErr
        /\ ~startTables[p][OldTemp].exists
        /\ IsNewShape(tables[Canonical])
        /\ Cardinality(tables[Canonical].rows) = 2

(***************************************************************************)
(* C8: filterMigrations returns exactly the entries of its input whose     *)
(* direction is Up and whose version is at most the legacy version, in the *)
(* order of the input, and nothing else.                                   *)
(***************************************************************************)
KeptIndexes == {i \in 1..Len(fMigrations) :
                   fMigrations[i].Direction = Up /\ fMigrations[i].Version <= fLegacy}

\* the k-th smallest kept index
KeptIndex(k) == CHOOSE i \in KeptIndexes : Cardinality({j \in KeptIndexes : j <= i}) = k

C8_FilterExact ==
    fDone =>
        /\ Len(fResult) = Cardinality(KeptIndexes)
        /\ \A k \in 1..Len(fResult) : fResult[k] = fMigrations[KeptIndex(k)]

\* a result that is not sorted by version, from an input with a Down entry and
\* an entry above the legacy version
C8_Witness ==
    /\ fDone
    /\ Len(fResult) = 2
    /\ fResult[1].Version > fResult[2].Version
    /\ \E i \in 1..Len(fMigrations) : fMigrations[i].Direction = Down
    /\ \E i \in 1..Len(fMigrations) :
          fMigrations[i].Direction = Up /\ fMigrations[i].Version > fLegacy

(***************************************************************************)
(* C9: useNewSchemaTable issues the rename of the temp table to the        *)
(* canonical name only right after a rename of the canonical table to      *)
(* <prefix>schema_migrations_old_temp that succeeded; a first rename that  *)
(* fails ends the call and leaves every table as it was.                   *)
(***************************************************************************)
C9_SecondRenameAfterFirst ==
    \A p \in Procs :
        \A i \in 1..Len(trace[p]) :
            IsRename(trace[p][i], tempSchemaMigrationTableName, Canonical) =>
                /\ i > 1
                /\ IsRename(trace[p][i - 1], Canonical, OldTemp)
                /\ trace[p][i - 1].e = NoErr

C9_FailedFirstRename ==
    \A p \in Procs :
        (pc[p] = "renameOld" /\ pc'[p] # "renameOld") =>
            \/ /\ pc'[p] = "renameTemp"
               /\ trace'[p][Len(trace'[p])].e = NoErr
               /\ IsRename(trace'[p][Len(trace'[p])], Canonical, OldTemp)
            \/ /\ pc'[p] = "done"
               /\ trace'[p][Len(trace'[p])].e # NoErr
               /\ err'[p] = trace'[p][Len(trace'[p])].e
               /\ tables' = tables

C9_SwapOrder == []C9_SecondRenameAfterFirst /\ [][C9_FailedFirstRename]_vars

\* a call ended by the failure of its first rename
C9_Witness ==
    \E p \in Procs :
        /\ EnsureReturned(p)
        /\ err[p].site = "renameOld"
        /\ IsRename(trace[p][Len(trace[p])], Canonical, OldTemp)
        /\ IsLegacy(tables[Canonical])
        /\ tables[tempSchemaMigrationTableName].rows # {}

(***************************************************************************)
(* C10: the states of the upgrade within one call.                         *)
(***************************************************************************)
HasSwapped(tr) ==
    \E i \in 1..Len(tr) :
        IsRename(tr[i], tempSchemaMigrationTableName, Canonical) /\ tr[i].e = NoErr

\* NoTempTable 0, TempTableCreated 1, TempTablePopulated 2, Swapped 3
State4(tbls, tr) ==
    IF HasSwapped(tr) THEN 3
    ELSE IF ~tbls[tempSchemaMigrationTableName].exists THEN 0
    ELSE IF tbls[tempSchemaMigrationTableName].rows = {} THEN 1
    ELSE 2

\* the same with the state between the two renames: the temp table populated
\* and no table at the canonical name.  NoTempTable 0, TempTableCreated 1,
\* TempTablePopulated 2, canonical name vacant 3, Swapped 4
State5(tbls, tr) ==
    IF HasSwapped(tr) THEN 4
    ELSE IF ~tbls[tempSchemaMigrationTableName].exists THEN 0
    ELSE IF tbls[tempSchemaMigrationTableName].rows = {} THEN 1
    ELSE IF tbls[Canonical].exists THEN 2
    ELSE 3

\* p takes a step of a call of EnsureSchemaMigrationFormat
EnsureStep(p) == op[p] = "ensure" /\ pc[p] \notin {"idle", "done"} /\ pc'[p] # pc[p]

\* a failing step issues no statement after the one that failed and leaves the
\* database as it was
NoCompensation(p) ==
    (pc'[p] = "done" /\ err'[p] # NoErr) =>
        /\ tables' = tables
        /\ Len(trace'[p]) <= Len(trace[p]) + 1
        /\ trace'[p][Len(trace'[p])].e = err'[p]

(***************************************************************************)
(* C10 as claimed: every statement of a call that changes the database is  *)
(* the transition to the next of the four states NoTempTable,              *)
(* TempTableCreated, TempTablePopulated, Swapped; no step goes back or     *)
(* skips a state; a failing step changes nothing.                          *)
(***************************************************************************)
C10_FourStatesAct ==
    \A p \in Procs :
        EnsureStep(p) =>
            /\ State4(tables', trace'[p]) \in
                  {State4(tables, trace[p]), State4(tables, trace[p]) + 1}
            /\ tables' # tables =>
                  /\ State4(tables', trace'[p]) = State4(tables, trace[p]) + 1
                  /\ Len(trace'[p]) = Len(trace[p]) + 1
            /\ NoCompensation(p)

C10_FourStates == [][C10_FourStatesAct]_vars

(***************************************************************************)
(* C10 as amended: the same with five states, the swap being two           *)
(* transitions: TempTablePopulated, then the canonical name vacant (first  *)
(* rename done), then Swapped.                                             *)
(***************************************************************************)
C10_FiveStatesAct ==
    \A p \in Procs :
        EnsureStep(p) =>
            /\ State5(tables', trace'[p]) \in
                  {State5(tables, trace[p]), State5(tables, trace[p]) + 1}
            /\ tables' # tables =>
                  /\ State5(tables', trace'[p]) = State5(tables, trace[p]) + 1
                  /\ Len(trace'[p]) = Len(trace[p]) + 1
            /\ State5(tables', trace'[p]) # State5(tables, trace[p]) => tables' # tables
            /\ NoCompensation(p)

C10_FiveStates == [][C10_FiveStatesAct]_vars

\* the second rename failed: the call is over, nothing was undone, and no
\* table has the canonical name
C10_Witness ==
    \E p \in Procs :
        /\ EnsureReturned(p)
        /\ err[p].site = "renameTemp"
        /\ LegacyStart(p)
        /\ State5(tables, trace[p]) = 3
        /\ tables[OldTemp] = startTables[p][Canonical]

(***************************************************************************)
(* C11: whenever detection returns an answer, the answer is "needed"       *)
(* exactly when the number of columns named dirty reported for the         *)
(* canonical table is 1: the count the information schema query returned,  *)
(* or on SQLite the number of rows read from the PRAGMA whose name is      *)
(* dirty.  A count of 0 or of 2 and more gives "not needed".               *)
(***************************************************************************)
ReportedCount(p) ==
    IF dbType = SqliteDBType
    THEN Cardinality({i \in 1..Len(data[p]) : Len(data[p][i]) >= 2 /\ data[p][i][2] = "dirty"})
    ELSE count[p]

C11_DecisionRule ==
    \A p \in Procs :
        DetectionAnswered(p) => (migrationNeeded[p] <=> ReportedCount(p) = 1)

\* two columns named dirty were reported (the table of another schema was
\* counted too) and the answer was "not needed"
C11_Witness ==
    \E p \in Procs :
        /\ DetectionAnswered(p)
        /\ ReportedCount(p) = 2
        /\ ~migrationNeeded[p]
        /\ IsLegacy(startTables[p][Canonical])

(***************************************************************************)
(* C12: of two processes running the entry points with no lock between     *)
(* them, as long as no call has started while another was under way (at    *)
(* most one process executes at a time), every call of                     *)
(* EnsureSchemaMigrationFormat on a legacy table in which no step failed   *)
(* leaves at the canonical name the rows filterMigrations(catalog,         *)
(* legacyVersion); only calls that overlap reach a state where a call      *)
(* fails or those rows differ.                                             *)
(***************************************************************************)
NoStepFailed(p) == \A i \in 1..Len(trace[p]) : trace[p][i].e = NoErr

C12_UnsafeOnlyWhenConcurrent ==
    ~everOverlapped =>
        \A p \in Procs :
            (EnsureReturnedNil(p) /\ LegacyStart(p) /\ NoStepFailed(p)) =>
                tables[Canonical].rows = CatalogRowsUpTo(LegacyVersionAtStart(p))

\* the catalog has an Up entry at or below version v and no version twice:
\* the insert of a call running alone does not fail
CatalogFits(v) ==
    /\ CatalogRowsUpTo(v) # {}
    /\ \A i, j \in 1..Len(assets) :
          (i # j /\ assets[i].Direction = Up /\ assets[j].Direction = Up) =>
              assets[i].Version # assets[j].Version

\* a call that found the legacy table and detected it, with a catalog that
\* fits, returns no error and leaves the filtered catalog
CallSafe(p) ==
    (/\ EnsureReturned(p)
     /\ LegacyStart(p)
     /\ migrationNeeded[p]
     /\ CatalogFits(LegacyVersionAtStart(p))) =>
        /\ err[p] = NoErr
        /\ tables[Canonical].rows = CatalogRowsUpTo(LegacyVersionAtStart(p))

\* Calls that do not overlap are safe where detection finds the legacy table.
C12_SafeOneAtATime == ~everOverlapped => \A p \in Procs : CallSafe(p)

\* Violated: calls that overlap are not.
C12_SafeWhenConcurrent == \A p \in Procs : CallSafe(p)

\* Violated: nor do overlapping calls that return no error leave the filtered
\* catalog.
C12_RowsWhenConcurrent ==
    \A p \in Procs :
        (EnsureReturnedNil(p) /\ LegacyStart(p) /\ migrationNeeded[p]) =>
            tables[Canonical].rows = CatalogRowsUpTo(LegacyVersionAtStart(p))

(***************************************************************************)
(* C13: whenever EnsureSchemaMigrationFormat or                            *)
(* deleteOldSchemaMigrationTable has returned an error, the call has made  *)
(* at least one s.logger.Error call before returning.                      *)
(***************************************************************************)
C13_ErrorLogged ==
    \A p \in Procs :
        (pc[p] = "done" /\ err[p] # NoErr) => logged[p] # <<>>

\* Every error but one of getEmbeddedMigrations is logged before it is
\* returned.
C13_HoldsButForCatalog ==
    \A p \in Procs :
        (pc[p] = "done" /\ err[p] # NoErr /\ err[p].site # "list") => logged[p] # <<>>

(***************************************************************************)
(* C14: outside isSchemaMigrationNeededSQLite no row iterator is open: the *)
(* rows of the PRAGMA are open only between the query that succeeded and   *)
(* the return of the function, whether it returns normally or on a failed  *)
(* Scan; a query that failed leaves none open.                             *)
(***************************************************************************)
C14_RowsReleased ==
    \A p \in Procs : rowsOpen[p] => (op[p] = "ensure" /\ pc[p] = "scan")

\* the function returned early on a row it could not scan, after a query
\* that succeeded
C14_Witness ==
    \E p \in Procs :
        /\ EnsureReturned(p)
        /\ err[p] = Err("detect", "scan")
        /\ ~rowsOpen[p]
        /\ Len(trace[p]) = 1
        /\ trace[p][1].op = "pragma_table_info"

(***************************************************************************)
(* C15: as long as deleteOldSchemaMigrationTable has not been called,      *)
(* exactly one of <prefix>schema_migrations and                            *)
(* <prefix>schema_migrations_old_temp is the legacy table the database     *)
(* started with, its row (version, dirty) unmodified, whatever calls of    *)
(* EnsureSchemaMigrationFormat have run, failed or not; and no step of     *)
(* EnsureSchemaMigrationFormat changes a legacy table.                     *)
(***************************************************************************)
LegacyTables(tbls) == {tbls[t] : t \in {u \in TableNames : IsLegacy(tbls[u])}}

C15_ExactlyOneHolder ==
    (IsLegacy(original) /\ ~cleanupInvoked) =>
        /\ (tables[Canonical] = original) # (tables[OldTemp] = original)
        /\ LegacyTables(tables) = {original}

C15_LegacyUntouched ==
    \A p \in Procs : EnsureStep(p) => LegacyTables(tables') = LegacyTables(tables)

C15_HistoryKept == []C15_ExactlyOneHolder /\ [][C15_LegacyUntouched]_vars

\* after the swap, a further call has run and the backup still is the legacy
\* table
C15_Witness ==
    \E p \in Procs :
        /\ EnsureReturned(p)
        /\ NewShapeStart(p)
        /\ IsLegacy(original)
        /\ ~cleanupInvoked
        /\ tables[OldTemp] = original
        /\ tables[Canonical] # original

(***************************************************************************)
(* C16: whenever EnsureSchemaMigrationFormat has returned no error, on a   *)
(* database that had a table at the canonical name before the first call   *)
(* and after whatever earlier calls, failed or not, a table exists at the  *)
(* canonical name <prefix>schema_migrations and has no dirty column.       *)
(***************************************************************************)
C16_NilMeansNewShape ==
    \A p \in Procs :
        (EnsureReturnedNil(p) /\ original.exists) => IsNewShape(tables[Canonical])

\* The claim where detection is right (MySQL and SQLite): violated, a call
\* that follows a failed second rename returns no error with no table at the
\* canonical name.
C16_FailsAfterFailedSwap ==
    \A p \in Procs :
        (/\ EnsureReturnedNil(p)
         /\ original.exists
         /\ dbType \in {MysqlDBType, SqliteDBType}
         /\ QuietDetection(p)) => IsNewShape(tables[Canonical])

\* A call that found the dirty column and returned no error leaves a table
\* of the new shape at the canonical name.
C16_HoldsWhenDetected ==
    \A p \in Procs :
        (EnsureReturnedNil(p) /\ migrationNeeded[p]) => IsNewShape(tables[Canonical])

(***************************************************************************)
(* C17: a call of EnsureSchemaMigrationFormat that follows a call that     *)
(* failed with the canonical table still legacy-shaped, and in which no    *)
(* step fails for an outside reason, returns no error and leaves at the    *)
(* canonical name the new-shaped table whose rows are the Up entries of    *)
(* the catalog at or below the legacy version.                             *)
(***************************************************************************)
OutsideFailure(e) == e.cause \in {"conn", "scan", "next", "read_dir", "parse"}

RetryReturned(p) ==
    /\ EnsureReturned(p)
    /\ retry[p]
    /\ LegacyStart(p)
    /\ \A i \in 1..Len(trace[p]) : ~OutsideFailure(trace[p][i].e)

RetryDone(p) ==
    /\ err[p] = NoErr
    /\ IsNewShape(tables[Canonical])
    /\ tables[Canonical].rows = CatalogRowsUpTo(LegacyVersionAtStart(p))

C17_RetrySucceeds ==
    \A p \in Procs : RetryReturned(p) => RetryDone(p)

\* The claim where detection is right (MySQL) and the failed call had filled
\* the temp table: violated, the insert meets the rows left behind.
C17_RetryAfterPopulate ==
    \A p \in Procs :
        (/\ RetryReturned(p)
         /\ dbType = MysqlDBType
         /\ startTables[p][tempSchemaMigrationTableName].rows # {}) => RetryDone(p)

\* A retry falls short only where detection answers "not needed" or the
\* insert fails.
C17_FailsAtDetectionOrInsert ==
    \A p \in Procs :
        RetryReturned(p) => (RetryDone(p) \/ ~migrationNeeded[p] \/ err[p].site = "populate")

\* createTempSchemaTable on a temp table that exists returns no error of its
\* own and leaves the table and its rows as they were.
C17_CreateKeepsRows ==
    [][\A p \in Procs :
          (pc[p] = "create" /\ pc'[p] # "create"
           /\ tables[tempSchemaMigrationTableName].exists) =>
              /\ tables' = tables
              /\ err'[p] \in {NoErr, Err("create", "conn")}]_vars

=============================================================================
